---- MODULE Spec2Model ----
(***************************************************************************)
(* mi-top: a terminal dashboard for AMD GPU telemetry.                     *)
(*                                                                         *)
(* The module models                                                       *)
(*   - GPUHistory, the circular utilization buffer (newGPUHistory, add,    *)
(*     getData) and the history rebuild done on a terminal resize;         *)
(*   - the delimited-row parsers getGPUMetrics and getProcessInfo, and the *)
(*     labeled-block getProcessInfo of src/gpu_metrics.go;                 *)
(*   - the process table (updateProcessList with sort.Slice,               *)
(*     handleProcessListEvents);                                           *)
(*   - calculateDataPoints;                                                *)
(*   - the event loop of main: ticker, ui events, quit.                    *)
(*                                                                         *)
(* Specifications: SpecHist (one GPUHistory), Spec (the program), SpecKeys *)
(* (the program at the keyboard), SpecTable, SpecParse and SpecWidth (one  *)
(* call of updateProcessList, of a parser, of calculateDataPoints).        *)
(*                                                                         *)
(* float64 samples are modelled by integers, Go slices by sequences (a Go  *)
(* index i is the TLA+ index i + 1), strings that are compared or measured *)
(* by sequences of character codes.                                        *)
(***************************************************************************)
EXTENDS Integers, Sequences, FiniteSets, TLC

VARIABLES
    \* ---- the GPUHistory harness (specification SpecHist) ----
    gh,             \* the GPUHistory under test: [values, maxLen, index]
    pushed,         \* the values appended to gh since newGPUHistory, in order
    oldData,        \* local oldData of the rebuild loop (part_001:335)
    ret,            \* what the last getData() call returned (a slice)
    hop,            \* the last operation applied to gh
    nextVal,        \* the next known value to append (1, 2, 3, ...)
    nres,           \* rebuilds done so far
    \* ---- the program (specification Spec) ----
    pc,             \* where main is: "running" (at the select), "metrics"
                    \* (tick handler, inside getGPUMetrics), "process" (tick
                    \* handler, inside getProcessInfo), "done" (returned),
                    \* "fatal" (log.Fatalf at startup)
    numGPUs,        \* len(metrics) at startup
    gpuHistories,   \* one GPUHistory per chart
    gpuCharts,      \* one chart per device: [Title, Data]; Data is a slice
    processList,    \* the list widget: [Rows, SelectedRow, Title]
    selectedColumn, \* global selectedColumn
    sortReverse,    \* global sortReverse
    uiEvents,       \* the event the ui.PollEvents channel offers, or NoEvent
    metrics,        \* locals metrics, err of the ticker case: [err, metrics]
    processes,      \* locals processes, err of the ticker case: [err, processes]
    screen,         \* what the last ui.Render drew
    renders,        \* ui.Render calls so far
    nticks,         \* ticks taken from ticker.C so far
    narrived,       \* events offered on uiEvents so far
    \* ---- one call of a function (specifications SpecTable, SpecParse,
    \*      SpecWidth) ----
    fop,            \* the function called last
    farg,           \* what it was called with
    fres            \* what it returned

hvars == <<gh, pushed, oldData, ret, hop, nextVal, nres>>

\* the program's own state (the bookkeeping of the model left out)
progvars == <<numGPUs, gpuHistories, gpuCharts, processList, selectedColumn,
              sortReverse, metrics, processes, screen, renders>>

mvars == <<pc, numGPUs, gpuHistories, gpuCharts, processList, selectedColumn,
           sortReverse, uiEvents, metrics, processes, screen, renders, nticks,
           narrived>>

fvars == <<fop, farg, fres>>

vars == <<gh, pushed, oldData, ret, hop, nextVal, nres,
          pc, numGPUs, gpuHistories, gpuCharts, processList, selectedColumn,
          sortReverse, uiEvents, metrics, processes, screen, renders, nticks,
          narrived, fop, farg, fres>>

-----------------------------------------------------------------------------
(* Bounds of the model *)

MaxCap == 10        \* capacities tried by the GPUHistory harness: 1..MaxCap
MaxPush == 12       \* values appended in one run of the harness
MaxRebuild == 1     \* rebuilds in one run of the harness
MaxTicks == 2       \* ticks the ticker delivers in one run of the program
MaxEvents == 1      \* ui events delivered in one run of the program
MaxKeys == 4        \* key events delivered in one run at the keyboard
MaxKeyTicks == 2    \* ticks delivered in one run at the keyboard
MaxRows == 3        \* processes in a list handed to updateProcessList
MaxLines == 3       \* lines in one output handed to a parser
MaxWidth == 510     \* terminal widths tried: -MaxWidth..MaxWidth

-----------------------------------------------------------------------------
(* Slices *)

Zeros(n) == [i \in 1..n |-> 0]

\* Go's copy(dst[off:], src): min(len(dst) - off, len(src)) elements are copied
Copy(dst, off, src) ==
    [i \in 1..Len(dst) |->
        IF i > off /\ i - off <= Len(src) THEN src[i - off] ELSE dst[i]]

\* s[from:] and s[:to] with Go's 0-based bounds
SliceFrom(s, from) == SubSeq(s, from + 1, Len(s))
SliceTo(s, to) == SubSeq(s, 1, to)

\* the last n elements of s (all of s when it is shorter)
Last(s, n) == IF n >= Len(s) THEN s ELSE SubSeq(s, Len(s) - n + 1, Len(s))

Min(a, b) == IF a <= b THEN a ELSE b

-----------------------------------------------------------------------------
(* GPUHistory *)

newGPUHistory(maxLen) ==
    [values |-> Zeros(maxLen), maxLen |-> maxLen, index |-> 0]

\* a plausible slip: the cursor is advanced before the slot is written
add_advanceFirst(h, value) ==
    LET ix == (h.index + 1) % h.maxLen
    IN  [h EXCEPT !.values[ix + 1] = value, !.index = ix]

add(h, value) ==
    [h EXCEPT !.values[h.index + 1] = value,
              !.index = (h.index + 1) % h.maxLen]

\* a plausible slip: the backing array is returned whatever the cursor
getData_noRotate(h) ==
    [h |-> h, alias |-> TRUE, data |-> h.values]

\* a plausible slip: the buffer is linearized in place
getData_inPlace(h) ==
    LET result == Copy(Copy(Zeros(h.maxLen), 0, SliceFrom(h.values, h.index)),
                       h.maxLen - h.index, SliceTo(h.values, h.index))
    IN  [h |-> [h EXCEPT !.values = result, !.index = 0],
         alias |-> TRUE, data |-> result]

\* getData returns a slice and leaves the receiver as the code leaves it:
\*   h     the receiver after the call,
\*   alias TRUE when the slice returned is the receiver's own backing array
\*         (index = 0), FALSE when it is a fresh copy,
\*   data  the elements of the slice at return.
getData(h) ==
    IF h.index = 0
    THEN [h |-> h, alias |-> TRUE, data |-> h.values]
    ELSE LET result == Copy(Copy(Zeros(h.maxLen), 0, SliceFrom(h.values, h.index)),
                            h.maxLen - h.index, SliceTo(h.values, h.index))
         IN  [h |-> h, alias |-> FALSE, data |-> result]

\* for _, v := range data { h.add(v) }
RECURSIVE AddAll(_, _)
AddAll(h, data) ==
    IF data = <<>> THEN h ELSE AddAll(add(h, Head(data)), Tail(data))

\* a plausible slip: the backing array is replayed, not the linearized data
Rebuild_rawValues(old, newDataPoints) ==
    AddAll(newGPUHistory(newDataPoints), old.values)

\* the body of the <Resize> loop for one device: a new history of the new
\* capacity, the old linearized data replayed through add, oldest first
Rebuild(old, newDataPoints) ==
    AddAll(newGPUHistory(newDataPoints), getData(old).data)

\* what a slice shows now: an aliasing slice shows the array it aliases
Deref(slice, h) == IF slice.alias THEN h.values ELSE slice.data

NoSlice == [alias |-> FALSE, data |-> <<>>]

-----------------------------------------------------------------------------
(* Strings: sequences of character codes *)

S_0 == <<48>>                   \* "0"
S_1 == <<49>>                   \* "1"
S_2 == <<50>>                   \* "2"
S_10 == <<49, 48>>              \* "10"
S_9 == <<57>>                   \* "9"
S_25 == <<50, 53>>              \* "25"
S_75 == <<55, 53>>              \* "75"
S_80 == <<56, 48>>              \* "80"
S_NA == <<78, 47, 65>>          \* "N/A"
S_a == <<97>>                   \* "a"
S_b == <<98>>                   \* "b"
S_Percent == <<37>>             \* "%"
S_NoProc == <<78, 111>>         \* stands for "No running processes detected"

IsDigit(c) == c >= 48 /\ c <= 57

RECURSIVE DecimalValue(_)
DecimalValue(str) ==
    IF str = <<>> THEN 0
    ELSE 10 * DecimalValue(SubSeq(str, 1, Len(str) - 1)) + (str[Len(str)] - 48)

IsNumber(str) == str # <<>> /\ \A i \in 1..Len(str) : IsDigit(str[i])

\* id, _ := strconv.Atoi(s): the value, or 0 when s does not parse
Atoi(str) == IF IsNumber(str) THEN DecimalValue(str) ELSE 0
AtoiErr(str) == ~IsNumber(str)

\* v, _ := strconv.ParseFloat(s, 64), on the whole numbers the model uses
ParseFloat(str) == IF IsNumber(str) THEN DecimalValue(str) ELSE 0

\* Go's s < t on strings: bytewise lexicographic
RECURSIVE StrLess(_, _)
StrLess(a, b) ==
    IF b = <<>> THEN FALSE
    ELSE IF a = <<>> THEN TRUE
    ELSE IF Head(a) # Head(b) THEN Head(a) < Head(b)
    ELSE StrLess(Tail(a), Tail(b))

\* strings.Contains(s, "No running processes detected")
ContainsNoProc(str) ==
    \E i \in 1..Len(str) :
        i + Len(S_NoProc) - 1 <= Len(str)
        /\ SubSeq(str, i, i + Len(S_NoProc) - 1) = S_NoProc

-----------------------------------------------------------------------------
(* getGPUMetrics: amd-smi monitor --csv *)

\* The command's outcome is [fail, lines]: fail when cmd.Output() returns an
\* error, lines the lines of its output, the header first.  A line is
\* [n, id, gfx]: the number of comma-separated fields, fields[0] and
\* fields[4]; the other numeric fields are parsed like fields[4] and only
\* reach the chart title.

MinFields == 17

RECURSIVE MetricsRows(_)
MetricsRows(lines) ==
    IF lines = <<>> THEN <<>>
    ELSE LET line == Head(lines)
         IN  IF line.n < MinFields
             THEN MetricsRows(Tail(lines))
             ELSE <<[ID |-> Atoi(line.id), GFXUtil |-> ParseFloat(line.gfx)]>>
                  \o MetricsRows(Tail(lines))

getGPUMetrics(out) ==
    IF out.fail
    THEN [err |-> TRUE, metrics |-> <<>>]
    ELSE [err |-> FALSE,
          metrics |-> IF out.lines = <<>> THEN <<>>
                      ELSE MetricsRows(Tail(out.lines))]

-----------------------------------------------------------------------------
(* getProcessInfo: amd-smi process --csv *)

\* The command's outcome is [fail, records]: records are the CSV records of
\* the output, the header first.  A record is [n, f0, f1, name, pid, gfx,
\* total]: its number of fields, record[0], record[1], record[3], record[4],
\* record[6] and record[8]; the three other memory fields are converted like
\* record[8].  csv.Reader (FieldsPerRecord = 0) takes the field count from the
\* first record and fails on a later record with another count.  The outputs
\* modelled have a header of 9 fields, so record[8] exists in every record
\* that passes the count; total is a whole number of MiB, so the float
\* division by 1024 twice is exact.

MiB == 1048576

\* the loop over the records after the header; hdr is the header's field count
RECURSIVE ProcessRows(_, _)
ProcessRows(records, hdr) ==
    IF records = <<>> THEN [err |-> FALSE, processes |-> <<>>]
    ELSE LET record == Head(records)
             rest == ProcessRows(Tail(records), hdr)
         IN  IF record.n # hdr
             THEN [err |-> TRUE, processes |-> <<>>]
             ELSE IF ContainsNoProc(record.f1) \/ AtoiErr(record.f0)
             THEN rest
             ELSE IF rest.err THEN rest
             ELSE [err |-> FALSE,
                   processes |->
                       <<[GPU |-> Atoi(record.f0),
                          Name |-> record.name,
                          PID |-> record.pid,
                          GFXUsage |-> record.gfx \o S_Percent,
                          TotalMem |-> ParseFloat(record.total) \div MiB]>>
                       \o rest.processes]

getProcessInfo(out) ==
    IF out.fail \/ out.records = <<>>
    THEN [err |-> TRUE, processes |-> <<>>]
    ELSE ProcessRows(Tail(out.records), Head(out.records).n)

-----------------------------------------------------------------------------
(* getProcessInfo: amd-smi process (labeled blocks, src/gpu_metrics.go) *)

\* the markers the parser looks for
M_GPU == <<71, 80, 85, 58>>                             \* "GPU:"
M_NAME == <<78, 65, 77, 69, 58>>                        \* "NAME:"
M_PID == <<80, 73, 68, 58>>                             \* "PID:"
M_GTT_MEM == <<71, 84, 84, 95, 77, 69, 77, 58>>         \* "GTT_MEM:"
M_CPU_MEM == <<67, 80, 85, 95, 77, 69, 77, 58>>         \* "CPU_MEM:"
M_VRAM_MEM == <<86, 82, 65, 77, 95, 77, 69, 77, 58>>    \* "VRAM_MEM:"
M_MEM_USAGE == <<77, 69, 77, 95, 85, 83, 65, 71, 69, 58>>   \* "MEM_USAGE:"
M_GFX == <<71, 70, 88, 58>>                             \* "GFX:"
S_MB == <<32, 77, 66>>                                  \* " MB"
S_ns == <<32, 110, 115>>                                \* " ns"
S_ZeroPercent == <<48, 46, 48, 37>>                     \* "0.0%"

HasPrefix(str, prefix) ==
    Len(str) >= Len(prefix) /\ SubSeq(str, 1, Len(prefix)) = prefix

Contains(str, substr) ==
    \E i \in 1..(Len(str) - Len(substr) + 1) :
        SubSeq(str, i, i + Len(substr) - 1) = substr

TrimSuffix(str, suffix) ==
    IF Len(str) >= Len(suffix)
       /\ SubSeq(str, Len(str) - Len(suffix) + 1, Len(str)) = suffix
    THEN SubSeq(str, 1, Len(str) - Len(suffix))
    ELSE str

IsSpace(c) == c \in {9, 10, 11, 12, 13, 32}

RECURSIVE TrimLeft(_)
TrimLeft(str) ==
    IF str # <<>> /\ IsSpace(Head(str)) THEN TrimLeft(Tail(str)) ELSE str

RECURSIVE TrimRight(_)
TrimRight(str) ==
    IF str # <<>> /\ IsSpace(str[Len(str)])
    THEN TrimRight(SubSeq(str, 1, Len(str) - 1)) ELSE str

TrimSpace(str) == TrimRight(TrimLeft(str))

\* the longest prefix of str without the character c
RECURSIVE UpTo(_, _)
UpTo(str, c) ==
    IF str = <<>> \/ Head(str) = c THEN <<>>
    ELSE <<Head(str)>> \o UpTo(Tail(str), c)

\* strings.Split(line, ":")[1], for a line with a colon in it
SplitColon1(line) ==
    UpTo(SubSeq(line, Len(UpTo(line, 58)) + 2, Len(line)), 58)

\* the longest prefix of str without a space character
RECURSIVE Word(_)
Word(str) ==
    IF str = <<>> \/ IsSpace(Head(str)) THEN <<>>
    ELSE <<Head(str)>> \o Word(Tail(str))

\* strings.Fields(str)
RECURSIVE Fields(_)
Fields(str) ==
    LET t == TrimLeft(str)
    IN  IF t = <<>> THEN <<>>
        ELSE <<Word(t)>> \o Fields(SubSeq(t, Len(Word(t)) + 1, Len(t)))

\* strconv.ParseInt(s, 10, 64): [err, value], an optional sign and digits
ParseInt(str) ==
    LET signed == str # <<>> /\ Head(str) \in {43, 45}
        digits == IF signed THEN Tail(str) ELSE str
    IN  IF ~IsNumber(digits) THEN [err |-> TRUE, value |-> 0]
        ELSE [err |-> FALSE,
              value |-> IF signed /\ Head(str) = 45
                        THEN 0 - DecimalValue(digits)
                        ELSE DecimalValue(digits)]

\* strconv.Itoa on a natural number
RECURSIVE Itoa(_)
Itoa(n) ==
    IF n < 10 THEN <<48 + n>> ELSE Itoa(n \div 10) \o <<48 + (n % 10)>>

\* fmt.Sprintf("%.1f%%", float64(gfxTime)/1e9*100) for gfxTime > 0: the
\* percentage is gfxTime / 10^7, printed rounded to tenths
FormatGFX(gfxTime) ==
    LET tenths == (gfxTime + 500000) \div 1000000
    IN  Itoa(tenths \div 10) \o <<46>> \o Itoa(tenths % 10) \o S_Percent

\* var currentProcess ProcessInfo
ZeroProcessInfo ==
    [GPU |-> 0, Name |-> <<>>, PID |-> <<>>, GTTMem |-> 0, CPUMem |-> 0,
     VRAMMem |-> 0, TotalMem |-> 0, GFXUsage |-> <<>>]

\* strconv.ParseFloat(strings.TrimSuffix(memStr, " MB"), 64) of a line
MemOf(line) == ParseFloat(TrimSuffix(TrimSpace(SplitColon1(line)), S_MB))

\* one round of the scanner loop; st is [currentGPU, currentProcess,
\* processes, panic], panic set when fields[1] does not exist
ScanLine(st, line) ==
    LET cur == st.currentProcess
    IN  IF HasPrefix(line, M_GPU)
        THEN LET fields == Fields(line)
             IN  IF Len(fields) < 2 THEN [st EXCEPT !.panic = TRUE]
                 ELSE [st EXCEPT !.currentGPU = Atoi(fields[2])]
        ELSE IF Contains(line, M_NAME)
        THEN [st EXCEPT
                !.processes = IF cur.Name # <<>> THEN Append(@, cur) ELSE @,
                !.currentProcess =
                    [ZeroProcessInfo EXCEPT !.GPU = st.currentGPU,
                                            !.Name = TrimSpace(SplitColon1(line))]]
        ELSE IF Contains(line, M_PID)
        THEN [st EXCEPT !.currentProcess.PID = TrimSpace(SplitColon1(line))]
        ELSE IF Contains(line, M_GTT_MEM)
        THEN [st EXCEPT !.currentProcess.GTTMem = MemOf(line)]
        ELSE IF Contains(line, M_CPU_MEM)
        THEN [st EXCEPT !.currentProcess.CPUMem = MemOf(line)]
        ELSE IF Contains(line, M_VRAM_MEM)
        THEN [st EXCEPT !.currentProcess.VRAMMem = MemOf(line)]
        ELSE IF Contains(line, M_MEM_USAGE)
        THEN [st EXCEPT !.currentProcess.TotalMem = MemOf(line)]
        ELSE IF Contains(line, M_GFX)
        THEN LET gfxTime == ParseInt(TrimSuffix(TrimSpace(SplitColon1(line)), S_ns))
             IN  [st EXCEPT !.currentProcess.GFXUsage =
                     IF ~gfxTime.err /\ gfxTime.value > 0
                     THEN FormatGFX(gfxTime.value) ELSE S_ZeroPercent]
        ELSE st

RECURSIVE ScanLines(_, _)
ScanLines(st, lines) ==
    IF lines = <<>> \/ st.panic THEN st
    ELSE ScanLines(ScanLine(st, Head(lines)), Tail(lines))

\* getProcessInfo of src/gpu_metrics.go.  The command's outcome is [fail,
\* lines]; the result is [panic, err, processes], panic when the function
\* does not return (index out of range)
getProcessInfoLabeled(out) ==
    IF out.fail THEN [panic |-> FALSE, err |-> TRUE, processes |-> <<>>]
    ELSE LET st == ScanLines([currentGPU |-> 0 - 1,
                              currentProcess |-> ZeroProcessInfo,
                              processes |-> <<>>, panic |-> FALSE], out.lines)
         IN  IF st.panic
             THEN [panic |-> TRUE, err |-> FALSE, processes |-> <<>>]
             ELSE [panic |-> FALSE, err |-> FALSE,
                   processes |-> IF st.currentProcess.Name # <<>>
                                 THEN Append(st.processes, st.currentProcess)
                                 ELSE st.processes]

-----------------------------------------------------------------------------
(* The process table *)

columns == <<"GPU", "Name", "PID", "Usage">>

MinNameLen == 20

Max(a, b) == IF a >= b THEN a ELSE b

\* the first loop of updateProcessList: one item per process, its display
\* line formatted with the name width known when the process is reached
RECURSIVE MakeItems(_, _)
MakeItems(procs, maxNameLen) ==
    IF procs = <<>> THEN <<>>
    ELSE LET proc == Head(procs)
             w == Max(maxNameLen, Len(proc.Name))
         IN  <<[gpu |-> proc.GPU, name |-> proc.Name, pid |-> proc.PID,
                usage |-> proc.GFXUsage,
                display |-> [kind |-> "row", gpu |-> proc.GPU,
                             name |-> proc.Name, nameWidth |-> w,
                             pid |-> proc.PID, total |-> proc.TotalMem,
                             usage |-> proc.GFXUsage]]>>
             \o MakeItems(Tail(procs), w)

RECURSIVE MaxNameLen(_, _)
MaxNameLen(procs, maxNameLen) ==
    IF procs = <<>> THEN maxNameLen
    ELSE MaxNameLen(Tail(procs), Max(maxNameLen, Len(Head(procs).Name)))

\* the comparator handed to sort.Slice
less(a, b, col, rev) ==
    LET result == CASE col = 0 -> a.gpu < b.gpu
                    [] col = 1 -> StrLess(a.name, b.name)
                    [] col = 2 -> StrLess(a.pid, b.pid)
                    [] col = 3 -> StrLess(a.usage, b.usage)
                    [] OTHER -> FALSE
    IN  IF rev THEN ~result ELSE result

\* sort.Slice on at most 12 elements is an insertion sort:
\*   for i := 1; i < n; i++ { for j := i; j > 0 && less(j, j-1); j-- { swap } }
RECURSIVE SinkDown(_, _, _, _)
SinkDown(items, j, col, rev) ==
    IF j > 1 /\ less(items[j], items[j - 1], col, rev)
    THEN SinkDown([items EXCEPT ![j] = items[j - 1], ![j - 1] = items[j]],
                  j - 1, col, rev)
    ELSE items

RECURSIVE InsertionSort(_, _, _, _)
InsertionSort(items, i, col, rev) ==
    IF i > Len(items) THEN items
    ELSE InsertionSort(SinkDown(items, i, col, rev), i + 1, col, rev)

\* insertionSort on data[a:b] (Go indices); it touches nothing outside
insertionSortRange(items, a, b, col, rev) ==
    SubSeq(items, 1, a)
    \o InsertionSort(SubSeq(items, a + 1, b), 2, col, rev)
    \o SubSeq(items, b + 1, Len(items))

\* data.Less(i, j) and data.Swap(i, j), i and j Go indices
Less(items, i, j, col, rev) == less(items[i + 1], items[j + 1], col, rev)
Swap(items, i, j) ==
    [items EXCEPT ![i + 1] = items[j + 1], ![j + 1] = items[i + 1]]

\* order2: <<x, y, swaps>> with data[x] <= data[y]
order2(items, a, b, swaps, col, rev) ==
    IF Less(items, b, a, col, rev) THEN <<b, a, swaps + 1>>
    ELSE <<a, b, swaps>>

\* median: <<the index of the median of data[a], data[b], data[c], swaps>>
median(items, a, b, c, col, rev) ==
    LET s1 == order2(items, a, b, 0, col, rev)
        s2 == order2(items, s1[2], c, s1[3], col, rev)
        s3 == order2(items, s1[1], s2[1], s2[3], col, rev)
    IN  <<s3[2], s3[3]>>

\* choosePivot on data[a:b] with 8 <= b - a < 50 (no ninther): the pivot and
\* the hint; three comparisons never reach maxSwaps, so no decreasingHint
choosePivot(items, a, b, col, rev) ==
    LET l == b - a
        m == median(items, a + (l \div 4), a + (l \div 4) * 2,
                    a + (l \div 4) * 3, col, rev)
    IN  [pivot |-> m[1],
         hint |-> IF m[2] = 0 THEN "increasing" ELSE "unknown"]

\* partialInsertionSort on data[a:b] with b - a < 50 (shortestShifting): TRUE
\* when no adjacent pair is out of order; otherwise FALSE, nothing moved
partialInsertionSort(items, a, b, col, rev) ==
    \A i \in (a + 1)..(b - 1) : ~Less(items, i, i - 1, col, rev)

\* for i <= j && data.Less(i, a) { i++ }
RECURSIVE ScanUp(_, _, _, _, _, _)
ScanUp(items, i, j, a, col, rev) ==
    IF i <= j /\ Less(items, i, a, col, rev)
    THEN ScanUp(items, i + 1, j, a, col, rev) ELSE i

\* for i <= j && !data.Less(j, a) { j-- }
RECURSIVE ScanDown(_, _, _, _, _, _)
ScanDown(items, i, j, a, col, rev) ==
    IF i <= j /\ ~Less(items, j, a, col, rev)
    THEN ScanDown(items, i, j - 1, a, col, rev) ELSE j

\* the scans and swaps of partition, the pivot already at a
RECURSIVE PartitionLoop(_, _, _, _, _, _)
PartitionLoop(items, i, j, a, col, rev) ==
    LET i2 == ScanUp(items, i, j, a, col, rev)
        j2 == ScanDown(items, i2, j, a, col, rev)
    IN  IF i2 > j2
        THEN [data |-> Swap(items, j2, a), mid |-> j2]
        ELSE PartitionLoop(Swap(items, i2, j2), i2 + 1, j2 - 1, a, col, rev)

\* partition: data[a:b] rearranged around data[pivot], and where the pivot
\* ends
partition(items, a, b, pivot, col, rev) ==
    PartitionLoop(Swap(items, a, pivot), a + 1, b - 1, a, col, rev)

maxInsertion == 12

\* pdqsort on a whole slice of maxInsertion + 1 elements: one round of the
\* loop, after which both sides of the pivot are at most maxInsertion long
\* and are insertion sorted (breakPatterns, partitionEqual and heapSort are
\* not reached)
pdqsort(items, col, rev) ==
    LET n == Len(items)
        cp == choosePivot(items, 0, n, col, rev)
    IN  IF cp.hint = "increasing" /\ partialInsertionSort(items, 0, n, col, rev)
        THEN items
        ELSE LET pt == partition(items, 0, n, cp.pivot, col, rev)
             IN  insertionSortRange(
                     insertionSortRange(pt.data, 0, pt.mid, col, rev),
                     pt.mid + 1, n, col, rev)

\* sort.Slice(items, less), for the slices of at most maxInsertion + 1
\* elements the model sorts
sortSlice(items, col, rev) ==
    IF Len(items) <= maxInsertion THEN InsertionSort(items, 2, col, rev)
    ELSE pdqsort(items, col, rev)

\* updateProcessList: the rows it leaves in processList.Rows
updateProcessList(procs, col, rev) ==
    LET items == MakeItems(procs, MinNameLen)
        header == [kind |-> "header", nameWidth |-> MaxNameLen(procs, MinNameLen)]
        sorted == sortSlice(items, col, rev)
    IN  <<header, [kind |-> "separator"]>>
        \o [i \in 1..Len(sorted) |-> sorted[i].display]

\* fmt.Sprintf("Process List (Sort: %s%s)", columns[selectedColumn], arrow)
Title(col, rev) ==
    [column |-> columns[col + 1], arrow |-> IF rev THEN "down" ELSE "up"]

\* a plausible slip: <Left> and <Right> wrap around
handleProcessListEvents_wrap(id, pl, col, rev) ==
    CASE id = "<Left>" ->
            LET c == (col + Len(columns) - 1) % Len(columns)
            IN  [pl |-> [pl EXCEPT !.Title = Title(c, rev)], col |-> c, rev |-> rev]
      [] id = "<Right>" ->
            LET c == (col + 1) % Len(columns)
            IN  [pl |-> [pl EXCEPT !.Title = Title(c, rev)], col |-> c, rev |-> rev]
      [] id \in {"<Enter>", "<Space>"} ->
            [pl |-> pl, col |-> col, rev |-> ~rev]
      [] OTHER -> [pl |-> pl, col |-> col, rev |-> rev]

\* handleProcessListEvents: the list widget, selectedColumn and sortReverse it
\* leaves
handleProcessListEvents(id, pl, col, rev) ==
    CASE id = "<Up>" ->
            [pl |-> IF pl.SelectedRow > 0
                    THEN [pl EXCEPT !.SelectedRow = pl.SelectedRow - 1]
                    ELSE pl,
             col |-> col, rev |-> rev]
      [] id = "<Down>" ->
            [pl |-> IF pl.SelectedRow < Len(pl.Rows) - 1
                    THEN [pl EXCEPT !.SelectedRow = pl.SelectedRow + 1]
                    ELSE pl,
             col |-> col, rev |-> rev]
      [] id = "<Left>" ->
            IF col > 0
            THEN [pl |-> [pl EXCEPT !.Title = Title(col - 1, rev)],
                  col |-> col - 1, rev |-> rev]
            ELSE [pl |-> pl, col |-> col, rev |-> rev]
      [] id = "<Right>" ->
            IF col < Len(columns) - 1
            THEN [pl |-> [pl EXCEPT !.Title = Title(col + 1, rev)],
                  col |-> col + 1, rev |-> rev]
            ELSE [pl |-> pl, col |-> col, rev |-> rev]
      [] id \in {"<Enter>", "<Space>"} ->
            [pl |-> pl, col |-> col, rev |-> ~rev]
      [] OTHER -> [pl |-> pl, col |-> col, rev |-> rev]

-----------------------------------------------------------------------------
(* calculateDataPoints *)

MinDataPoints == 50
MaxDataPoints == 500
Padding == 4

\* a plausible slip: the lower clamp is missing
calculateDataPoints_noFloor(width) ==
    LET usableWidth == width - Padding
    IN  IF usableWidth > MaxDataPoints THEN MaxDataPoints ELSE usableWidth

calculateDataPoints(width) ==
    LET usableWidth == width - Padding
    IN  IF usableWidth < MinDataPoints THEN MinDataPoints
        ELSE IF usableWidth > MaxDataPoints THEN MaxDataPoints
        ELSE usableWidth

-----------------------------------------------------------------------------
(* What the environment can hand to the program *)

Devices == {0, 1}               \* the device indices amd-smi reports
UtilString(d) == IF d = 0 THEN S_25 ELSE S_75   \* what device d reports
StartWidths == {55}             \* ui.TerminalDimensions() at startup
ResizeWidths == {30, 56}        \* payload.Width of a <Resize> event

S_1MiB == <<49, 48, 52, 56, 53, 55, 54>>    \* "1048576"

MetricsHeader == [n |-> 17, id |-> <<103, 112, 117>>, gfx |-> <<103, 102, 120>>]

\* the lines amd-smi can print for device d: well-formed, or cut short
MetricsLines(d) ==
    {[n |-> 17, id |-> <<48 + d>>, gfx |-> UtilString(d)],
     [n |-> 16, id |-> <<48 + d>>, gfx |-> UtilString(d)]}

MetricsOutputs ==
    {[fail |-> TRUE, lines |-> <<>>]}
    \cup {[fail |-> FALSE, lines |-> <<MetricsHeader, l0, l1>>] :
             l0 \in MetricsLines(0), l1 \in MetricsLines(1)}

ProcessHeader ==
    [n |-> 9, f0 |-> <<103>>, f1 |-> <<>>, name |-> <<110>>, pid |-> <<112>>,
     gfx |-> <<103>>, total |-> <<109>>]

ProcA ==
    [n |-> 9, f0 |-> S_0, f1 |-> <<>>, name |-> S_b, pid |-> S_2,
     gfx |-> S_9, total |-> S_1MiB]
ProcB ==
    [n |-> 9, f0 |-> S_1, f1 |-> <<>>, name |-> S_a, pid |-> S_10,
     gfx |-> S_80, total |-> S_0]
ProcNone ==
    [n |-> 9, f0 |-> S_0, f1 |-> S_NoProc, name |-> <<>>, pid |-> <<>>,
     gfx |-> <<>>, total |-> <<>>]
ProcBadGPU ==
    [n |-> 9, f0 |-> S_NA, f1 |-> <<>>, name |-> S_a, pid |-> S_1,
     gfx |-> S_0, total |-> S_0]
ProcShort ==
    [n |-> 8, f0 |-> S_1, f1 |-> <<>>, name |-> S_b, pid |-> S_1,
     gfx |-> S_0, total |-> S_0]

\* the outcomes of amd-smi process --csv the program is run against
ProcessOutputs ==
    {[fail |-> TRUE, records |-> <<>>]}
    \cup {[fail |-> FALSE, records |-> <<ProcessHeader>> \o rs] :
             rs \in {<<ProcNone>>, <<ProcA, ProcB>>,
                     <<ProcBadGPU, ProcB, ProcA>>, <<ProcA, ProcShort>>}}

EventIDs == {"q", "<C-c>", "<Resize>", "<Up>", "<Down>", "<Left>", "<Right>",
             "<Enter>", "<Space>", "x"}
QuitIDs == {"q", "<C-c>"}

NoEvent == [ID |-> "", Width |-> 0]

Events ==
    {[ID |-> id, Width |-> 0] : id \in EventIDs \ {"<Resize>"}}
    \cup {[ID |-> "<Resize>", Width |-> w] : w \in ResizeWidths}

NoScreen == [charts |-> <<>>, Rows |-> <<>>, SelectedRow |-> 0,
             Title |-> [column |-> "", arrow |-> ""]]

NoResult == [err |-> FALSE, metrics |-> <<>>]
NoProcesses == [err |-> FALSE, processes |-> <<>>]

\* the program parked, for the GPUHistory harness
IdleProgram ==
    /\ pc = "fatal" /\ numGPUs = 0
    /\ gpuHistories = <<>> /\ gpuCharts = <<>>
    /\ processList = [Rows |-> <<>>, SelectedRow |-> 0, Title |-> Title(0, FALSE)]
    /\ selectedColumn = 0 /\ sortReverse = FALSE
    /\ uiEvents = NoEvent
    /\ metrics = NoResult /\ processes = NoProcesses
    /\ screen = NoScreen /\ renders = 0
    /\ nticks = 0 /\ narrived = 0

\* the harness parked, for the program
IdleHarness ==
    /\ gh = newGPUHistory(1)
    /\ pushed = <<>> /\ oldData = <<>>
    /\ ret = NoSlice /\ hop = "new"
    /\ nextVal = 1 /\ nres = 0

\* ---- record sets handed to updateProcessList ----

S_LongName == [i \in 1..21 |-> 99]          \* a name of 21 characters

TableProcs ==
    {[GPU |-> 0, Name |-> S_b, PID |-> S_2, GFXUsage |-> S_9 \o S_Percent,
      TotalMem |-> 1],
     [GPU |-> 1, Name |-> S_a, PID |-> S_10, GFXUsage |-> S_80 \o S_Percent,
      TotalMem |-> 0],
     [GPU |-> 0, Name |-> S_a, PID |-> S_1, GFXUsage |-> S_9 \o S_Percent,
      TotalMem |-> 0],
     [GPU |-> 1, Name |-> S_LongName, PID |-> S_25,
      GFXUsage |-> S_0 \o S_Percent, TotalMem |-> 2]}

\* one more process than sort.Slice insertion sorts, all on device 0 and
\* idle: pids "00", "01", ...
ManyOnOneGPU ==
    [i \in 1..(maxInsertion + 1) |->
        [GPU |-> 0, Name |-> S_a,
         PID |-> <<48 + ((i - 1) \div 10), 48 + ((i - 1) % 10)>>,
         GFXUsage |-> S_0 \o S_Percent, TotalMem |-> 0]]

\* the process lists of at most MaxRows distinct processes, and the long one
TableInputs ==
    {ps \in UNION {[1..n -> TableProcs] : n \in 0..MaxRows} :
        \A i, j \in 1..Len(ps) : i # j => ps[i] # ps[j]}
    \cup {ManyOnOneGPU}

\* ---- lines amd-smi process prints (labeled blocks) ----

L_GPU0 ==
    <<71, 80, 85, 58, 32, 48>>    \* "GPU: 0"
L_GPU1 ==
    <<71, 80, 85, 58, 32, 49>>    \* "GPU: 1"
L_GPUBare ==
    <<71, 80, 85, 58>>    \* "GPU:"
L_NameA ==
    <<32, 32, 78, 65, 77, 69, 58, 32, 97>>    \* "  NAME: a"
L_NameB ==
    <<32, 32, 78, 65, 77, 69, 58, 32, 98>>    \* "  NAME: b"
L_NameEmpty ==
    <<32, 32, 78, 65, 77, 69, 58, 32>>    \* "  NAME: "
L_PID ==
    <<32, 32, 80, 73, 68, 58, 32, 49, 48>>    \* "  PID: 10"
L_GFX ==
    \* "  GFX: 250000000 ns"
    <<32, 32, 71, 70, 88, 58, 32, 50, 53, 48, 48, 48, 48, 48, 48, 48, 32,
      110, 115>>


BlockLines ==
    {L_GPU0, L_GPU1, L_GPUBare, L_NameA, L_NameB, L_NameEmpty, L_PID, L_GFX}

\* the outcomes of amd-smi process: a failure, or at most MaxLines lines
BlockOutputs ==
    {[fail |-> TRUE, lines |-> <<>>]}
    \cup {[fail |-> FALSE, lines |-> ls] :
             ls \in UNION {[1..n -> BlockLines] : n \in 0..MaxLines}}

\* ---- rows handed to the delimited parsers on their own ----

\* a metrics line whose utilization is not a number
MetricsBadUtil == [n |-> 17, id |-> S_1, gfx |-> S_NA]

\* outcomes of amd-smi monitor --csv: a failure, or the header and at most
\* MaxLines lines, well-formed, cut short or with an unparsable number
MetricsParseOutputs ==
    {[fail |-> TRUE, lines |-> <<>>]}
    \cup {[fail |-> FALSE, lines |-> <<MetricsHeader>> \o ls] :
             ls \in UNION {[1..n -> MetricsLines(0) \cup MetricsLines(1)
                                    \cup {MetricsBadUtil}] : n \in 0..MaxLines}}

\* a process record whose memory total is not a number
ProcBadTotal ==
    [n |-> 9, f0 |-> S_0, f1 |-> <<>>, name |-> S_a, pid |-> S_25,
     gfx |-> S_0, total |-> S_NA]

\* outcomes of amd-smi process --csv: a failure, or the header and at most
\* MaxLines records
ProcessParseOutputs ==
    {[fail |-> TRUE, records |-> <<>>]}
    \cup {[fail |-> FALSE, records |-> <<ProcessHeader>> \o rs] :
             rs \in UNION {[1..n -> {ProcA, ProcB, ProcNone, ProcBadGPU,
                                     ProcShort, ProcBadTotal}] :
                              n \in 0..MaxLines}}

\* no function called yet
IdleFun == fop = "none" /\ farg = <<>> /\ fres = <<>>

-----------------------------------------------------------------------------
(* The GPUHistory harness: one history, driven through its three uses *)

InitHist ==
    /\ IdleProgram
    /\ IdleFun
    /\ \E c \in 1..MaxCap : gh = newGPUHistory(c)
    /\ pushed = <<>>
    /\ oldData = <<>>
    /\ ret = NoSlice
    /\ hop = "new"
    /\ nextVal = 1
    /\ nres = 0

HistAdd ==
    /\ nextVal <= MaxPush
    /\ gh' = add(gh, nextVal)
    /\ pushed' = Append(pushed, nextVal)
    /\ nextVal' = nextVal + 1
    /\ hop' = "add"
    /\ UNCHANGED <<oldData, ret, nres>>
    /\ UNCHANGED <<mvars, fvars>>

HistGetData ==
    /\ hop # "getData2"
    /\ gh' = getData(gh).h
    /\ ret' = [getData(gh) EXCEPT !.h = 0]
    /\ hop' = IF hop = "getData" THEN "getData2" ELSE "getData"
    /\ UNCHANGED <<pushed, oldData, nextVal, nres>>
    /\ UNCHANGED <<mvars, fvars>>

HistRebuild ==
    /\ nres < MaxRebuild
    /\ \E c \in 1..MaxCap :
        /\ gh' = Rebuild(gh, c)
        /\ oldData' = getData(gh).data
        /\ pushed' = getData(gh).data
    /\ ret' = NoSlice
    /\ hop' = "rebuild"
    /\ nres' = nres + 1
    /\ UNCHANGED nextVal
    /\ UNCHANGED <<mvars, fvars>>

NextHist == HistAdd \/ HistGetData \/ HistRebuild

SpecHist == InitHist /\ [][NextHist]_vars

-----------------------------------------------------------------------------
(* main *)

\* ui.Render(grid): what is drawn is what the widgets hold at the call
Draw(charts, hists, pl) ==
    [charts |-> [i \in 1..Len(charts) |->
                    [Title |-> charts[i].Title,
                     Data |-> Deref(charts[i].Data, hists[i])]],
     Rows |-> pl.Rows, SelectedRow |-> pl.SelectedRow, Title |-> pl.Title]

\* main up to the event loop: the charts and histories of numGPUs devices,
\* every history filled with dataPoints zeros; nothing is drawn yet
Init ==
    /\ IdleHarness
    /\ IdleFun
    /\ \E w \in StartWidths, out \in MetricsOutputs :
        LET dataPoints == calculateDataPoints(w)
            m == getGPUMetrics(out)
            n == Len(m.metrics)
        IN  /\ pc = IF m.err THEN "fatal" ELSE "running"
            /\ numGPUs = n
            /\ gpuCharts =
                 [i \in 1..n |->
                    [Title |-> [ID |-> i - 1, live |-> FALSE, GFXUtil |-> 0],
                     Data |-> [alias |-> FALSE, data |-> Zeros(dataPoints)]]]
            /\ gpuHistories =
                 [i \in 1..n |->
                    AddAll(newGPUHistory(dataPoints), Zeros(dataPoints))]
    /\ processList = [Rows |-> <<>>, SelectedRow |-> 0,
                      Title |-> Title(0, FALSE)]
    /\ selectedColumn = 0
    /\ sortReverse = FALSE
    /\ uiEvents = NoEvent
    /\ metrics = NoResult
    /\ processes = NoProcesses
    /\ screen = NoScreen
    /\ renders = 0
    /\ nticks = 0
    /\ narrived = 0

\* the ui.PollEvents goroutine offers the next terminal event on uiEvents
ArriveFrom(events, max) ==
    /\ pc \in {"running", "metrics", "process"}
    /\ uiEvents = NoEvent
    /\ narrived < max
    /\ \E e \in events : uiEvents' = e
    /\ narrived' = narrived + 1
    /\ UNCHANGED <<pc, progvars, nticks>>
    /\ UNCHANGED <<hvars, fvars>>

Arrive == ArriveFrom(Events, MaxEvents)

\* a plausible slip: a break that leaves the select, not the loop
HandleQuit_break ==
    /\ pc = "running"
    /\ uiEvents.ID \in QuitIDs
    /\ pc' = "running"
    /\ uiEvents' = NoEvent
    /\ UNCHANGED <<progvars, nticks, narrived>>
    /\ UNCHANGED <<hvars, fvars>>

\* case "q", "<C-c>": return
HandleQuit ==
    /\ pc = "running"
    /\ uiEvents.ID \in QuitIDs
    /\ pc' = "done"
    /\ uiEvents' = NoEvent
    /\ UNCHANGED <<progvars, nticks, narrived>>
    /\ UNCHANGED <<hvars, fvars>>

\* case "<Resize>": every history rebuilt at the new capacity, every chart
\* given a fresh zeroed Data, one redraw
HandleResize ==
    /\ pc = "running"
    /\ uiEvents.ID = "<Resize>"
    /\ LET newDataPoints == calculateDataPoints(uiEvents.Width)
       IN  /\ gpuHistories' =
                [i \in 1..numGPUs |-> Rebuild(gpuHistories[i], newDataPoints)]
           /\ gpuCharts' =
                [i \in 1..numGPUs |->
                    [gpuCharts[i] EXCEPT
                        !.Data = [alias |-> FALSE, data |-> Zeros(newDataPoints)]]]
    /\ screen' = Draw(gpuCharts', gpuHistories', processList)
    /\ renders' = renders + 1
    /\ uiEvents' = NoEvent
    /\ UNCHANGED <<pc, numGPUs, processList, selectedColumn, sortReverse,
                   metrics, processes, nticks, narrived>>
    /\ UNCHANGED <<hvars, fvars>>

\* a plausible slip: a key also rebuilds the table from the last records
HandleKey_resort ==
    /\ pc = "running"
    /\ uiEvents # NoEvent
    /\ uiEvents.ID \notin QuitIDs \cup {"<Resize>"}
    /\ LET r == handleProcessListEvents(uiEvents.ID, processList,
                                        selectedColumn, sortReverse)
       IN  /\ processList' =
                 [r.pl EXCEPT !.Rows = updateProcessList(processes.processes,
                                                         r.col, r.rev)]
           /\ selectedColumn' = r.col
           /\ sortReverse' = r.rev
    /\ uiEvents' = NoEvent
    /\ UNCHANGED <<pc, numGPUs, gpuHistories, gpuCharts, metrics, processes,
                   screen, renders, nticks, narrived>>
    /\ UNCHANGED <<hvars, fvars>>

\* default: handleProcessListEvents(e); nothing is drawn
HandleKey ==
    /\ pc = "running"
    /\ uiEvents # NoEvent
    /\ uiEvents.ID \notin QuitIDs \cup {"<Resize>"}
    /\ LET r == handleProcessListEvents(uiEvents.ID, processList,
                                        selectedColumn, sortReverse)
       IN  /\ processList' = r.pl
           /\ selectedColumn' = r.col
           /\ sortReverse' = r.rev
    /\ uiEvents' = NoEvent
    /\ UNCHANGED <<pc, numGPUs, gpuHistories, gpuCharts, metrics, processes,
                   screen, renders, nticks, narrived>>
    /\ UNCHANGED <<hvars, fvars>>

\* case <-ticker.C: the handler starts and blocks in getGPUMetrics
TickStartUpTo(max) ==
    /\ pc = "running"
    /\ nticks < max
    /\ pc' = "metrics"
    /\ nticks' = nticks + 1
    /\ UNCHANGED <<progvars, uiEvents, narrived>>
    /\ UNCHANGED <<hvars, fvars>>

TickStart == TickStartUpTo(MaxTicks)

\* the loop over metrics of the ticker case: sample i goes to history i and
\* chart i, samples past the last chart are left out
ApplyMetrics(hists, charts, ms) ==
    [h |-> [i \in 1..Len(hists) |->
               IF i <= Len(ms)
               THEN getData(add(hists[i], ms[i].GFXUtil)).h
               ELSE hists[i]],
     c |-> [i \in 1..Len(charts) |->
               IF i <= Len(ms)
               THEN LET d == getData(add(hists[i], ms[i].GFXUtil))
                    IN  [Title |-> [ID |-> ms[i].ID, live |-> TRUE,
                                    GFXUtil |-> ms[i].GFXUtil],
                         Data |-> [alias |-> d.alias, data |-> d.data]]
               ELSE charts[i]]]

\* getGPUMetrics returns; on success the histories and charts are updated;
\* the handler goes on and blocks in getProcessInfo
MetricsReturnFrom(outputs) ==
    /\ pc = "metrics"
    /\ \E out \in outputs :
        LET m == getGPUMetrics(out)
            r == ApplyMetrics(gpuHistories, gpuCharts, m.metrics)
        IN  /\ metrics' = m
            /\ gpuHistories' = IF m.err THEN gpuHistories ELSE r.h
            /\ gpuCharts' = IF m.err THEN gpuCharts ELSE r.c
    /\ pc' = "process"
    /\ UNCHANGED <<numGPUs, processList, selectedColumn, sortReverse, uiEvents,
                   processes, screen, renders, nticks, narrived>>
    /\ UNCHANGED <<hvars, fvars>>

MetricsReturn == MetricsReturnFrom(MetricsOutputs)

\* a plausible slip: the table is rebuilt whatever err is
ProcessReturn_noErrCheck ==
    /\ pc = "process"
    /\ \E out \in ProcessOutputs :
        LET p == getProcessInfo(out)
        IN  /\ processes' = p
            /\ processList' =
                 [processList EXCEPT
                     !.Rows = updateProcessList(p.processes, selectedColumn,
                                                sortReverse)]
    /\ screen' = Draw(gpuCharts, gpuHistories, processList')
    /\ renders' = renders + 1
    /\ pc' = "running"
    /\ UNCHANGED <<numGPUs, gpuHistories, gpuCharts, selectedColumn, sortReverse,
                   uiEvents, metrics, nticks, narrived>>
    /\ UNCHANGED <<hvars, fvars>>

\* a plausible slip: the new rows are added to the rows on display
ProcessReturn_append ==
    /\ pc = "process"
    /\ \E out \in ProcessOutputs :
        LET p == getProcessInfo(out)
        IN  /\ processes' = p
            /\ processList' =
                 IF p.err THEN processList
                 ELSE [processList EXCEPT
                          !.Rows = @ \o updateProcessList(p.processes,
                                                          selectedColumn,
                                                          sortReverse)]
    /\ screen' = Draw(gpuCharts, gpuHistories, processList')
    /\ renders' = renders + 1
    /\ pc' = "running"
    /\ UNCHANGED <<numGPUs, gpuHistories, gpuCharts, selectedColumn, sortReverse,
                   uiEvents, metrics, nticks, narrived>>
    /\ UNCHANGED <<hvars, fvars>>

\* getProcessInfo returns; on success the table is rebuilt; one redraw
ProcessReturn ==
    /\ pc = "process"
    /\ \E out \in ProcessOutputs :
        LET p == getProcessInfo(out)
        IN  /\ processes' = p
            /\ processList' =
                 IF p.err THEN processList
                 ELSE [processList EXCEPT
                          !.Rows = updateProcessList(p.processes, selectedColumn,
                                                     sortReverse)]
    /\ screen' = Draw(gpuCharts, gpuHistories, processList')
    /\ renders' = renders + 1
    /\ pc' = "running"
    /\ UNCHANGED <<numGPUs, gpuHistories, gpuCharts, selectedColumn, sortReverse,
                   uiEvents, metrics, nticks, narrived>>
    /\ UNCHANGED <<hvars, fvars>>

Next ==
    \/ Arrive
    \/ HandleQuit
    \/ HandleResize
    \/ HandleKey
    \/ TickStart
    \/ MetricsReturn
    \/ ProcessReturn

Spec == Init /\ [][Next]_vars

-----------------------------------------------------------------------------
(* The program at the keyboard: every device found at startup and reporting *)
(* well-formed rows, no resize, and enough keys to walk the whole table     *)

KeyEvents == {e \in Events : e.ID \notin QuitIDs \cup {"<Resize>"}}

FullMetricsOutput ==
    [fail |-> FALSE,
     lines |-> <<MetricsHeader,
                 [n |-> 17, id |-> <<48>>, gfx |-> UtilString(0)],
                 [n |-> 17, id |-> <<49>>, gfx |-> UtilString(1)]>>]

InitKeys == Init /\ numGPUs = Cardinality(Devices)

ArriveKey == ArriveFrom(KeyEvents, MaxKeys)

TickStartKeys == TickStartUpTo(MaxKeyTicks)

MetricsReturnFull == MetricsReturnFrom({FullMetricsOutput})

NextKeys ==
    \/ ArriveKey
    \/ HandleKey
    \/ TickStartKeys
    \/ MetricsReturnFull
    \/ ProcessReturn

SpecKeys == InitKeys /\ [][NextKeys]_vars

-----------------------------------------------------------------------------
(* The process table on its own: updateProcessList called on one process   *)
(* list with one sort column, once for each direction                      *)

InitFun == IdleProgram /\ IdleHarness /\ IdleFun

CallUpdateProcessList ==
    /\ fop = "none"
    /\ \E procs \in TableInputs, col \in 0..(Len(columns) - 1) :
          /\ fop' = "updateProcessList"
          /\ farg' = [processes |-> procs, selectedColumn |-> col]
          /\ fres' = [up |-> updateProcessList(procs, col, FALSE),
                      down |-> updateProcessList(procs, col, TRUE)]
    /\ UNCHANGED <<hvars, mvars>>

NextTable == CallUpdateProcessList

SpecTable == InitFun /\ [][NextTable]_vars

-----------------------------------------------------------------------------
(* The parsers on their own: each called on one outcome of its command *)

CallGetProcessInfoLabeled ==
    /\ fop = "none"
    /\ \E out \in BlockOutputs :
          /\ fop' = "getProcessInfoLabeled"
          /\ farg' = out
          /\ fres' = getProcessInfoLabeled(out)
    /\ UNCHANGED <<hvars, mvars>>

CallGetGPUMetrics ==
    /\ fop = "none"
    /\ \E out \in MetricsParseOutputs :
          /\ fop' = "getGPUMetrics"
          /\ farg' = out
          /\ fres' = getGPUMetrics(out)
    /\ UNCHANGED <<hvars, mvars>>

CallGetProcessInfo ==
    /\ fop = "none"
    /\ \E out \in ProcessParseOutputs :
          /\ fop' = "getProcessInfo"
          /\ farg' = out
          /\ fres' = getProcessInfo(out)
    /\ UNCHANGED <<hvars, mvars>>

NextParse ==
    \/ CallGetProcessInfoLabeled
    \/ CallGetGPUMetrics
    \/ CallGetProcessInfo

SpecParse == InitFun /\ [][NextParse]_vars

-----------------------------------------------------------------------------
(* The sizing of a history on its own: what startup and <Resize> do with a *)
(* terminal width                                                          *)

Widths == (0 - MaxWidth)..MaxWidth

\* dataPoints := calculateDataPoints(width); newGPUHistory(dataPoints); the
\* result for the next wider terminal is kept next to it
CallCalculateDataPoints ==
    /\ fop = "none"
    /\ \E width \in Widths :
          LET dataPoints == calculateDataPoints(width)
          IN  /\ fop' = "calculateDataPoints"
              /\ farg' = width
              /\ fres' = [dataPoints |-> dataPoints,
                          wider |-> calculateDataPoints(width + 1),
                          history |-> newGPUHistory(dataPoints)]
    /\ UNCHANGED <<hvars, mvars>>

NextWidth == CallCalculateDataPoints

SpecWidth == InitFun /\ [][NextWidth]_vars

-----------------------------------------------------------------------------
(* The claims about GPUHistory, checked under SpecHist *)

\* C1: once at least maxLen values were appended to a freshly constructed
\* history, getData() is exactly the last maxLen appended values, oldest
\* first: the whole pushed sequence for n = c, the oldest k gone for n = c + k.
C1_RoundTrip ==
    Len(pushed) >= gh.maxLen => getData(gh).data = Last(pushed, gh.maxLen)

C1_Witness ==
    /\ hop = "add" /\ nres = 0
    /\ gh.maxLen = 3 /\ Len(pushed) = 5
    /\ getData(gh).data = <<3, 4, 5>>

\* C2: right after a rebuild, the last min(old capacity, new capacity)
\* elements of the new getData() are the last ones of the old linearized
\* data, in the same order.
C2_RebuildKeepsRecent ==
    hop = "rebuild" =>
        LET m == Min(Len(oldData), gh.maxLen)
        IN  Last(getData(gh).data, m) = Last(oldData, m)

C2_Witness ==
    /\ hop = "rebuild"
    /\ oldData = <<1, 2, 3, 4, 5, 6, 7, 8, 9, 10>>
    /\ gh.maxLen = 5
    /\ getData(gh).data = <<6, 7, 8, 9, 10>>

\* C3: a getData() call leaves values, maxLen and index as they were, and a
\* second call with no add() in between returns what the first returned.
C3_GetDataReadOnly ==
    [][/\ hop' \in {"getData", "getData2"} => gh' = gh
       /\ hop' = "getData2" => Deref(ret', gh') = Deref(ret, gh)]_vars

C3_Witness ==
    /\ hop = "getData2"
    /\ gh.index = 2 /\ gh.maxLen = 3
    /\ Deref(ret, gh) = <<3, 4, 5>>

-----------------------------------------------------------------------------
(* The claims about the program, checked under Spec *)

\* the step that handles the event uiEvents offers
Handles(ids) == pc = "running" /\ uiEvents.ID \in ids /\ uiEvents' = NoEvent
\* the steps at which the two commands of a tick return
MetricsReturns == pc = "metrics" /\ pc' = "process"
ProcessReturns == pc = "process" /\ pc' = "running"

\* C4: every history has len(values) = maxLen and 0 <= index < maxLen; apart
\* from the replacement of the histories on <Resize>, a step keeps every
\* history's length, and changes a history only while the metrics of a tick
\* are applied, and then only the slot at the cursor, the cursor moving on by
\* one modulo maxLen.
C4_HistoryShape ==
    /\ [](\A i \in 1..Len(gpuHistories) :
            /\ Len(gpuHistories[i].values) = gpuHistories[i].maxLen
            /\ gpuHistories[i].index \in 0..(gpuHistories[i].maxLen - 1))
    /\ [][/\ Len(gpuHistories') = Len(gpuHistories)
          /\ ~Handles({"<Resize>"}) =>
               \A i \in 1..Len(gpuHistories) :
                  LET a == gpuHistories[i]
                      b == gpuHistories'[i]
                  IN  /\ b.maxLen = a.maxLen
                      /\ Len(b.values) = Len(a.values)
                      /\ \/ b = a
                         \/ /\ MetricsReturns
                            /\ b.index = (a.index + 1) % a.maxLen
                            /\ \A k \in 1..a.maxLen :
                                 k # a.index + 1 => b.values[k] = a.values[k]]_vars

C4_Witness ==
    /\ pc = "process" /\ ~metrics.err /\ numGPUs = 2
    /\ gpuHistories[1].index = 1 /\ gpuHistories[1].values[1] = 25
    /\ gpuHistories[2].index = 1 /\ gpuHistories[2].values[1] = 75

\* C5: at the redraw of a <Resize>, every chart is drawn with the linearized
\* content of its rebuilt history.
C5_ResizeDrawsHistory ==
    [][Handles({"<Resize>"}) =>
         /\ renders' = renders + 1
         /\ \A i \in 1..numGPUs :
              screen'.charts[i].Data = getData(gpuHistories'[i]).data]_vars

\* C6: every handled navigation key, sort key and resize, and every tick, is
\* followed by exactly one redraw before the loop takes its next case.
C6_OneRedrawPerCase ==
    [][/\ Handles({"<Up>", "<Down>", "<Left>", "<Right>", "<Enter>", "<Space>",
                   "<Resize>"}) => renders' = renders + 1
       /\ ProcessReturns => renders' = renders + 1
       /\ ~(ProcessReturns \/ Handles(EventIDs)) => renders' = renders]_vars

\* C7: a tick whose metrics command fails leaves every history and every
\* chart as it was, a tick whose process command fails leaves the table rows
\* as they were; either command's success is applied whatever the other did,
\* and a tick always returns to the select.
C7_FailureKeepsView ==
    [][/\ (MetricsReturns /\ metrics'.err) =>
            /\ gpuHistories' = gpuHistories
            /\ gpuCharts' = gpuCharts
       /\ (MetricsReturns /\ ~metrics'.err /\ metrics'.metrics # <<>>
             /\ numGPUs > 0) =>
            /\ gpuHistories'[1] # gpuHistories[1]
            /\ gpuCharts'[1].Title.live
       /\ (ProcessReturns /\ processes'.err) =>
            processList'.Rows = processList.Rows
       /\ (ProcessReturns /\ ~processes'.err) =>
            Len(processList'.Rows) = Len(processes'.processes) + 2
       /\ pc = "metrics" => pc' \in {"metrics", "process"}
       /\ pc = "process" => pc' \in {"process", "running"}]_vars

C7_Witness ==
    /\ pc = "running" /\ nticks = 2 /\ numGPUs = 2
    /\ metrics.err /\ processes.err
    /\ gpuHistories[1].index = 1 /\ gpuHistories[1].values[1] = 25
    /\ gpuCharts[1].Title.live
    /\ Len(processList.Rows) = 4

\* C8: when the metrics of a tick are applied, the history of every device
\* that a sample names (by its ID) gets that sample's utilization appended,
\* and the history of every device no sample names is unchanged.
C8_OwnSeries ==
    [][(MetricsReturns /\ ~metrics'.err) =>
         \A d \in 0..(numGPUs - 1) :
            LET ks == {k \in 1..Len(metrics'.metrics) : metrics'.metrics[k].ID = d}
            IN  IF ks = {}
                THEN gpuHistories'[d + 1] = gpuHistories[d + 1]
                ELSE \E k \in ks :
                        LET v == metrics'.metrics[k].GFXUtil
                            a == gpuHistories[d + 1]
                        IN  gpuHistories'[d + 1] =
                               [a EXCEPT !.values[a.index + 1] = v,
                                         !.index = (a.index + 1) % a.maxLen]]_vars

\* C9: handling a quit event ends the loop, and nothing of the program
\* changes afterwards; a quit event offered while a tick handler is in flight
\* stays offered, and the handler runs to its redraw before the loop can end.
C9_QuitIsFinal ==
    [][/\ Handles(QuitIDs) => pc' = "done"
       /\ pc = "done" => (pc' = "done" /\ UNCHANGED progvars)
       /\ pc \in {"metrics", "process"} =>
            /\ pc' # "done"
            /\ uiEvents.ID \in QuitIDs => uiEvents' = uiEvents
            /\ pc' = "running" => (pc = "process" /\ renders' = renders + 1)]_vars

C9_Witness ==
    /\ pc = "done" /\ nticks = 2 /\ renders = 2
    /\ ~metrics.err /\ ~processes.err

-----------------------------------------------------------------------------
(* The claims about the keyboard, checked under SpecKeys *)

\* C10: the selected column is always one of 0..3; <Left> and <Right> move it
\* by one and stop at 0 and 3, <Enter> and <Space> flip the reversed flag and
\* leave the column, any other key leaves both.
C10_ColumnClamped ==
    /\ [](selectedColumn \in 0..3)
    /\ [][Handles(EventIDs \ (QuitIDs \cup {"<Resize>"})) =>
            CASE uiEvents.ID = "<Left>" ->
                    /\ selectedColumn' =
                         IF selectedColumn = 0 THEN 0 ELSE selectedColumn - 1
                    /\ sortReverse' = sortReverse
              [] uiEvents.ID = "<Right>" ->
                    /\ selectedColumn' =
                         IF selectedColumn = 3 THEN 3 ELSE selectedColumn + 1
                    /\ sortReverse' = sortReverse
              [] uiEvents.ID \in {"<Enter>", "<Space>"} ->
                    /\ selectedColumn' = selectedColumn
                    /\ sortReverse' = ~sortReverse
              [] OTHER ->
                    /\ selectedColumn' = selectedColumn
                    /\ sortReverse' = sortReverse]_vars

C10_Witness ==
    /\ pc = "running" /\ selectedColumn = 3
    /\ uiEvents.ID = "<Right>"

-----------------------------------------------------------------------------
(* The claims about the process table, checked under SpecTable *)

\* the rows after the header and the separator
DataRows(rows) == SubSeq(rows, 3, Len(rows))

Reverse(s) == [i \in 1..Len(s) |-> s[Len(s) + 1 - i]]

\* C11: for every process list, ties in the sort column included, the data
\* rows produced with sortReverse set are the exact reverse of the data rows
\* produced with sortReverse clear.
C11_ToggleReverses ==
    fop = "updateProcessList"
        => DataRows(fres.down) = Reverse(DataRows(fres.up))

\* the length of the longest name in a process list, 0 for the empty list
RECURSIVE LongestName(_)
LongestName(procs) ==
    IF procs = <<>> THEN 0
    ELSE LET rest == LongestName(Tail(procs))
         IN  IF Len(Head(procs).Name) > rest THEN Len(Head(procs).Name)
             ELSE rest

\* C17: in one render of the table the header and every data row pad the
\* name column to the same width, the longest name of the list or 20 when
\* no name is that long, whatever the order of the records.
C17_OneNameWidth ==
    fop = "updateProcessList" =>
        LET longest == LongestName(farg.processes)
            width == IF longest > 20 THEN longest ELSE 20
        IN  \A i \in 1..Len(fres.up) :
                fres.up[i].kind \in {"header", "row"}
                    => fres.up[i].nameWidth = width

-----------------------------------------------------------------------------
(* The claims about the parsers, checked under SpecParse *)

IsDeviceMarker(line) == HasPrefix(line, M_GPU)
IsNameMarker(line) == ~IsDeviceMarker(line) /\ Contains(line, M_NAME)

\* the positions, in order, of the name-marker lines with a non-empty name
NamedLines(lines) ==
    SelectSeq([i \in 1..Len(lines) |-> i],
              LAMBDA i : IsNameMarker(lines[i])
                         /\ TrimSpace(SplitColon1(lines[i])) # <<>>)

\* the device-marker lines before line i
DevicesBefore(lines, i) == {j \in 1..(i - 1) : IsDeviceMarker(lines[j])}

\* C12: the labeled-block parser returns one record per name-marker line
\* with a non-empty name, the last one included, and each record carries the
\* device index of the last device-marker line before its name line.
C12_OneRecordPerName ==
    (fop = "getProcessInfoLabeled" /\ ~farg.fail) =>
        LET named == NamedLines(farg.lines)
        IN  /\ Len(fres.processes) = Len(named)
            /\ \A k \in 1..Len(named) :
                  LET ds == DevicesBefore(farg.lines, named[k])
                      d == CHOOSE j \in ds : \A x \in ds : x <= j
                  IN  ds # {} => /\ Len(Fields(farg.lines[d])) >= 2
                                 /\ fres.processes[k].GPU
                                        = Atoi(Fields(farg.lines[d])[2])

\* the number a numeric field stands for: its value, zero when unparsable
FieldValue(str) == IF IsNumber(str) THEN DecimalValue(str) ELSE 0

\* the metrics lines after the header that have all their fields
FullMetricsLines(lines) ==
    SelectSeq(Tail(lines), LAMBDA l : l.n >= MinFields)

\* the process records after the header that are process rows with all their
\* fields and a device index
FullProcessRecords(records) ==
    SelectSeq(Tail(records),
              LAMBDA r : r.n >= Head(records).n /\ ~ContainsNoProc(r.f1)
                         /\ IsNumber(r.f0))

\* C13: both delimited parsers succeed whenever their command does; a row
\* with too few fields is dropped, an unparsable number reads as zero, and
\* every other row after the header yields exactly one record, in order.
C13_MalformedRowKeepsBatch ==
    /\ (fop = "getGPUMetrics" /\ ~farg.fail) =>
          LET full == FullMetricsLines(farg.lines)
          IN  /\ ~fres.err
              /\ Len(fres.metrics) = Len(full)
              /\ \A k \in 1..Len(full) :
                    /\ fres.metrics[k].ID = FieldValue(full[k].id)
                    /\ fres.metrics[k].GFXUtil = FieldValue(full[k].gfx)
    /\ (fop = "getProcessInfo" /\ ~farg.fail) =>
          LET full == FullProcessRecords(farg.records)
          IN  /\ ~fres.err
              /\ Len(fres.processes) = Len(full)
              /\ \A k \in 1..Len(full) :
                    /\ fres.processes[k].GPU = FieldValue(full[k].f0)
                    /\ fres.processes[k].Name = full[k].name
                    /\ fres.processes[k].PID = full[k].pid
                    /\ fres.processes[k].TotalMem
                          = FieldValue(full[k].total) \div MiB

-----------------------------------------------------------------------------
(* More claims about the program, checked under Spec *)

\* C14: when the discovery at startup finds no device, because the metrics
\* command failed or because it returned no device record, the program has
\* exited (log.Fatalf) and is never in the event loop.
C14_NoDevicesIsFatal == numGPUs = 0 => pc = "fatal"

\* what a data row shows of its record
RowKey(row) == [GPU |-> row.gpu, Name |-> row.name, PID |-> row.pid]
RecordKey(proc) == [GPU |-> proc.GPU, Name |-> proc.Name, PID |-> proc.PID]

\* C18: when the process parse of a tick succeeds, the table is the header,
\* the separator and one data row for each record of that parse and nothing
\* else; the records are process rows with a device index (no marker row,
\* whose name is empty, and no row with an unparsable device, which carry
\* pid "1" in the outputs modelled).
C18_TableIsThisTick ==
    [][(ProcessReturns /\ ~processes'.err) =>
          LET rows == processList'.Rows
              recs == processes'.processes
          IN  /\ Len(rows) = Len(recs) + 2
              /\ rows[1].kind = "header"
              /\ rows[2].kind = "separator"
              /\ \A i \in 3..Len(rows) : rows[i].kind = "row"
              /\ {RowKey(rows[i]) : i \in 3..Len(rows)}
                    = {RecordKey(recs[k]) : k \in 1..Len(recs)}
              /\ Cardinality({RecordKey(recs[k]) : k \in 1..Len(recs)})
                    = Len(recs)
              /\ \A k \in 1..Len(recs) :
                    recs[k].Name # <<>> /\ recs[k].PID # S_1
              /\ screen'.Rows = rows]_vars

\* a second tick whose parse returned two records
C18_Witness ==
    /\ pc = "running" /\ nticks = 2
    /\ ~processes.err /\ Len(processes.processes) = 2
    /\ Len(processList.Rows) = 4

\* row a is strictly before row b in the order of column col
RowBefore(a, b, col) ==
    CASE col = 0 -> a.gpu < b.gpu
      [] col = 1 -> StrLess(a.name, b.name)
      [] col = 2 -> StrLess(a.pid, b.pid)
      [] col = 3 -> StrLess(a.usage, b.usage)

\* no two neighbouring rows are the wrong way round for column col,
\* ascending, or descending when rev
InSortOrder(rows, col, rev) ==
    \A i \in 1..(Len(rows) - 1) :
        IF rev THEN ~RowBefore(rows[i], rows[i + 1], col)
        ELSE ~RowBefore(rows[i + 1], rows[i], col)

\* C19: whenever the screen is redrawn, by a tick or by a resize, the data
\* rows drawn are in the order of the sort column and direction current at
\* that moment.
C19_DrawnInSortOrder ==
    [][renders' # renders =>
          InSortOrder(DataRows(screen'.Rows), selectedColumn', sortReverse')]_vars

-----------------------------------------------------------------------------
(* More claims about the keyboard, checked under SpecKeys *)

NavKeys == {"<Up>", "<Down>", "<Left>", "<Right>", "<Enter>", "<Space>"}

\* C15: handling a navigation or sort key starts no parser (the program
\* stays at the select, the last parser results are the same) and leaves the
\* histories, the charts and the table rows as they were; only the selected
\* row, the selected column, the reversed flag and the title may change.
C15_KeysTouchOnlySelection ==
    [][Handles(NavKeys) =>
          /\ pc' = "running"
          /\ metrics' = metrics /\ processes' = processes
          /\ nticks' = nticks
          /\ gpuHistories' = gpuHistories
          /\ gpuCharts' = gpuCharts
          /\ processList'.Rows = processList.Rows
          /\ numGPUs' = numGPUs
          /\ screen' = screen /\ renders' = renders]_vars

\* three keys handled with a table on display
C15_Witness ==
    /\ pc = "running"
    /\ Len(processList.Rows) > 2
    /\ sortReverse /\ selectedColumn = 1 /\ processList.SelectedRow = 1

-----------------------------------------------------------------------------
(* The claim about calculateDataPoints, checked under SpecWidth *)

\* C16: for every terminal width, zero and negative widths included,
\* calculateDataPoints returns a number between 50 and 500 that a wider
\* terminal never makes smaller, and the history built with it has a
\* capacity between 50 and 500.
C16_DataPointsClamped ==
    fop = "calculateDataPoints" =>
        /\ fres.dataPoints \in 50..500
        /\ fres.dataPoints <= fres.wider
        /\ fres.history.maxLen \in 50..500
        /\ Len(fres.history.values) = fres.history.maxLen

\* a negative width, clamped up
C16_Witness ==
    fop = "calculateDataPoints" /\ farg < 0 /\ fres.history.maxLen = 50

\* C20: whenever the table has rows, the selected row is one of them:
\* 0 <= SelectedRow <= len(Rows) - 1.
C20_SelectedRowInRange ==
    Len(processList.Rows) > 0 =>
        processList.SelectedRow \in 0..(Len(processList.Rows) - 1)

\* C21: in every state the title of the process table names the selected
\* sort column and shows the arrow of the current direction (down when
\* reversed, up otherwise).
C21_TitleShowsSortState ==
    /\ processList.Title.column
         = <<"GPU", "Name", "PID", "Usage">>[selectedColumn + 1]
    /\ processList.Title.arrow = (IF sortReverse THEN "down" ELSE "up")

====
